---- MODULE Spec2Model ----
(***************************************************************************)
(* Branch cleaner: the cache-backed GitHubBranchStore (store.rs), the git  *)
(* wrapper (git.rs), the pull-request lookup (github.rs) and the ViewModel *)
(* transitions over ViewState (view_model.rs).                             *)
(*                                                                         *)
(* Two threads of control exist after load(): the interactive thread that  *)
(* runs the ViewModel handlers, and the task spawned by load() that looks  *)
(* up pull requests, streams one record per branch and finally overwrites  *)
(* the cache.  Every access to the cache happens under its mutex, so each  *)
(* locked region is one atomic step.  delete_selected_branches holds the   *)
(* lock twice (once inside Store::delete_branches, once inside             *)
(* Store::list_branches); the spawned task can run between the two, so the *)
(* handler is two consecutive steps of the interactive thread, sequenced   *)
(* by ui_pc.                                                               *)
(*                                                                         *)
(* Vec indices are 0-based in the source and kept 0-based in              *)
(* selected_index; element i of a Vec is element i+1 of the sequence.      *)
(* Option<T> is a sequence of length 0 (None) or 1 (Some).                 *)
(***************************************************************************)
EXTENDS Integers, Sequences, FiniteSets, TLC

\* ------------------------------------------------------------- bounds ----
MaxBranches == 2

\* Names of the unprotected local branches, in the order git lists them.
NamePool == <<"f1", "f2", "f3", "f4">>

FeatureNames == {NamePool[i] : i \in 1..MaxBranches}

\* git.rs:28
PROTECTED_BRANCHES == {"main", "master", "develop", "development"}

\* Order in which the repository enumerates its local branches.
RepoOrder == SubSeq(NamePool, 1, MaxBranches) \o <<"main">>

PrStatus == {"NONE", "OPEN", "MERGED", "CLOSED", "LOADING"}

\* ----------------------------------------------------------- helpers ----
None == <<>>
Some(x) == <<x>>

Range(s) == {s[i] : i \in 1..Len(s)}

Contains(s, x) == x \in Range(s)

\* Iterator::position : 1-based index of the first match, 0 when absent
Position(s, x) ==
  IF \E i \in 1..Len(s) : s[i] = x
    THEN CHOOSE i \in 1..Len(s) : s[i] = x /\ \A j \in 1..(i - 1) : s[j] # x
    ELSE 0

\* Vec::remove(pos), pos 1-based here
RemoveAt(s, pos) == SubSeq(s, 1, pos - 1) \o SubSeq(s, pos + 1, Len(s))

saturating_sub(a, b) == IF a >= b THEN a - b ELSE 0

Max(a, b) == IF a >= b THEN a ELSE b

NoDuplicates(s) == \A i, j \in 1..Len(s) : s[i] = s[j] => i = j

\* ------------------------------------------------------- BCBranch ----
BCBranch_new(name, status) ==
  [name |-> name, pr_status |-> status, pr_number |-> None, pr_title |-> None]

BCBranch_with_pr(name, status, number, title) ==
  [name |-> name, pr_status |-> status,
   pr_number |-> Some(number), pr_title |-> Some(title)]

Names(branches) == [i \in 1..Len(branches) |-> branches[i].name]

NameSet(branches) == {branches[i].name : i \in 1..Len(branches)}

\* the filter/map/collect of ViewState::new and delete_selected_branches
MergedNames(branches) ==
  Names(SelectSeq(branches, LAMBDA b : b.pr_status = "MERGED"))

\* Vec::retain(|b| !names.contains(&b.name))
Retain(branches, names) ==
  SelectSeq(branches, LAMBDA b : ~Contains(names, b.name))

\* ------------------------------------------------------ ViewState ----
\* ViewState::new that also selects the branches whose pull request is closed
ViewState_new_marks_closed(branches) ==
  [branches |-> branches,
   selected_index |-> 0,
   selected_branches |->
     Names(SelectSeq(branches, LAMBDA b : b.pr_status \in {"MERGED", "CLOSED"}))]

ViewState_new(branches) ==
  [branches |-> branches,
   selected_index |-> 0,
   selected_branches |-> MergedNames(branches)]

\* move_up that wraps from the first branch to the last
move_up_wraps(state) ==
  IF state.selected_index > 0
    THEN [state EXCEPT !.selected_index = @ - 1]
    ELSE [state EXCEPT !.selected_index = saturating_sub(Len(state.branches), 1)]

move_up(state) ==
  IF state.selected_index > 0
    THEN [state EXCEPT !.selected_index = @ - 1]
    ELSE state

\* move_down comparing with <= : the cursor can step to len
move_down_off_by_one(state) ==
  LET max_index == saturating_sub(Len(state.branches), 1)
  IN  IF state.selected_index <= max_index
        THEN [state EXCEPT !.selected_index = @ + 1]
        ELSE state

move_down(state) ==
  LET max_index == saturating_sub(Len(state.branches), 1)
  IN  IF state.selected_index < max_index
        THEN [state EXCEPT !.selected_index = @ + 1]
        ELSE state

\* toggle_selection that drops the last selected name instead of the found one
toggle_selection_pop(state) ==
  IF state.selected_index >= Len(state.branches)
    THEN state
    ELSE LET current_branch_name == state.branches[state.selected_index + 1].name
             pos == Position(state.selected_branches, current_branch_name)
         IN  IF pos # 0
               THEN [state EXCEPT !.selected_branches = RemoveAt(@, Len(@))]
               ELSE [state EXCEPT !.selected_branches = Append(@, current_branch_name)]

\* toggle_selection that pushes the name without looking for it first
toggle_selection_push_only(state) ==
  IF state.selected_index >= Len(state.branches)
    THEN state
    ELSE LET current_branch_name == state.branches[state.selected_index + 1].name
         IN  [state EXCEPT !.selected_branches = Append(@, current_branch_name)]

toggle_selection(state) ==
  IF state.selected_index >= Len(state.branches)
    THEN state
    ELSE LET current_branch_name == state.branches[state.selected_index + 1].name
             pos == Position(state.selected_branches, current_branch_name)
         IN  IF pos # 0
               THEN [state EXCEPT !.selected_branches = RemoveAt(@, pos)]
               ELSE [state EXCEPT !.selected_branches = Append(@, current_branch_name)]

\* update_branch that marks a merged update before looking the name up
update_branch_marks_unknown(state, updated_branch) ==
  LET pos == Position(Names(state.branches), updated_branch.name)
      sel == IF updated_branch.pr_status = "MERGED"
                  /\ ~Contains(state.selected_branches, updated_branch.name)
               THEN Append(state.selected_branches, updated_branch.name)
               ELSE state.selected_branches
  IN  [branches |-> IF pos = 0 THEN state.branches
                    ELSE [state.branches EXCEPT ![pos] = updated_branch],
       selected_index |-> state.selected_index,
       selected_branches |-> sel]

\* update_branch without the auto-selection
update_branch_no_autoselect(state, updated_branch) ==
  LET pos == Position(Names(state.branches), updated_branch.name)
  IN  IF pos = 0
        THEN state
        ELSE [state EXCEPT !.branches[pos] = updated_branch]

\* update_branch that auto-selects every merged update, whatever the prior status
update_branch_any_merged(state, updated_branch) ==
  LET pos == Position(Names(state.branches), updated_branch.name)
  IN  IF pos = 0
        THEN state
        ELSE LET sel == IF updated_branch.pr_status = "MERGED"
                             /\ ~Contains(state.selected_branches, updated_branch.name)
                          THEN Append(state.selected_branches, updated_branch.name)
                          ELSE state.selected_branches
             IN  [branches |-> [state.branches EXCEPT ![pos] = updated_branch],
                  selected_index |-> state.selected_index,
                  selected_branches |-> sel]

\* update_branch that pushes the record of a name it does not find
update_branch_inserts_unknown(state, updated_branch) ==
  LET pos == Position(Names(state.branches), updated_branch.name)
  IN  IF pos = 0
        THEN [state EXCEPT !.branches = Append(@, updated_branch)]
        ELSE LET was_loading == state.branches[pos].pr_status = "LOADING"
                 is_now_merged == updated_branch.pr_status = "MERGED"
                 sel == IF was_loading /\ is_now_merged
                             /\ ~Contains(state.selected_branches, updated_branch.name)
                          THEN Append(state.selected_branches, updated_branch.name)
                          ELSE state.selected_branches
             IN  [branches |-> [state.branches EXCEPT ![pos] = updated_branch],
                  selected_index |-> state.selected_index,
                  selected_branches |-> sel]

\* update_branch that moves the cursor onto the record it replaced
update_branch_moves_cursor(state, updated_branch) ==
  LET pos == Position(Names(state.branches), updated_branch.name)
  IN  IF pos = 0
        THEN state
        ELSE LET was_loading == state.branches[pos].pr_status = "LOADING"
                 is_now_merged == updated_branch.pr_status = "MERGED"
                 sel == IF was_loading /\ is_now_merged
                             /\ ~Contains(state.selected_branches, updated_branch.name)
                          THEN Append(state.selected_branches, updated_branch.name)
                          ELSE state.selected_branches
             IN  [branches |-> [state.branches EXCEPT ![pos] = updated_branch],
                  selected_index |-> pos - 1,
                  selected_branches |-> sel]

\* update_branch that takes the old record out and pushes the new one
update_branch_moves_to_end(state, updated_branch) ==
  LET pos == Position(Names(state.branches), updated_branch.name)
  IN  IF pos = 0
        THEN state
        ELSE LET was_loading == state.branches[pos].pr_status = "LOADING"
                 is_now_merged == updated_branch.pr_status = "MERGED"
                 sel == IF was_loading /\ is_now_merged
                             /\ ~Contains(state.selected_branches, updated_branch.name)
                          THEN Append(state.selected_branches, updated_branch.name)
                          ELSE state.selected_branches
             IN  [branches |-> Append(RemoveAt(state.branches, pos), updated_branch),
                  selected_index |-> state.selected_index,
                  selected_branches |-> sel]

\* update_branch pushing the name without the test on selected_branches
update_branch_pushes_again(state, updated_branch) ==
  LET pos == Position(Names(state.branches), updated_branch.name)
  IN  IF pos = 0
        THEN state
        ELSE LET was_loading == state.branches[pos].pr_status = "LOADING"
                 is_now_merged == updated_branch.pr_status = "MERGED"
                 sel == IF was_loading /\ is_now_merged
                          THEN Append(state.selected_branches, updated_branch.name)
                          ELSE state.selected_branches
             IN  [branches |-> [state.branches EXCEPT ![pos] = updated_branch],
                  selected_index |-> state.selected_index,
                  selected_branches |-> sel]

\* update_branch marking a branch that turns MERGED only while nothing is marked
update_branch_selects_first_only(state, updated_branch) ==
  LET pos == Position(Names(state.branches), updated_branch.name)
  IN  IF pos = 0
        THEN state
        ELSE LET was_loading == state.branches[pos].pr_status = "LOADING"
                 is_now_merged == updated_branch.pr_status = "MERGED"
                 sel == IF was_loading /\ is_now_merged
                             /\ state.selected_branches = <<>>
                          THEN Append(state.selected_branches, updated_branch.name)
                          ELSE state.selected_branches
             IN  [branches |-> [state.branches EXCEPT ![pos] = updated_branch],
                  selected_index |-> state.selected_index,
                  selected_branches |-> sel]

update_branch(state, updated_branch) ==
  LET pos == Position(Names(state.branches), updated_branch.name)
  IN  IF pos = 0
        THEN state
        ELSE LET was_loading == state.branches[pos].pr_status = "LOADING"
                 is_now_merged == updated_branch.pr_status = "MERGED"
                 sel == IF was_loading /\ is_now_merged
                             /\ ~Contains(state.selected_branches, updated_branch.name)
                          THEN Append(state.selected_branches, updated_branch.name)
                          ELSE state.selected_branches
             IN  [branches |-> [state.branches EXCEPT ![pos] = updated_branch],
                  selected_index |-> state.selected_index,
                  selected_branches |-> sel]

\* the reload keeping the old marks next to the merged names of the new list
reload_state_keeps_marks(state, new_branches) ==
  [branches |-> new_branches,
   selected_branches |->
     state.selected_branches \o
       SelectSeq(MergedNames(new_branches),
                 LAMBDA n : ~Contains(state.selected_branches, n)),
   selected_index |-> 0]

\* steps 2-4 of delete_selected_branches, given the result of list_branches()
reload_state(state, new_branches) ==
  [branches |-> new_branches,
   selected_branches |-> MergedNames(new_branches),
   selected_index |-> 0]

\* ------------------------------------------------------------ git.rs ----
\* list_local_branches: the local branches that are neither protected nor HEAD
\* the listing without the test on the current HEAD branch
list_local_branches_keeps_head(repo, current) ==
  SelectSeq(RepoOrder,
            LAMBDA name : /\ name \in repo
                          /\ name \notin PROTECTED_BRANCHES)

list_local_branches(repo, current) ==
  SelectSeq(RepoOrder,
            LAMBDA name : /\ name \in repo
                          /\ name \notin PROTECTED_BRANCHES
                          /\ current # Some(name))

\* GitRepository::delete_branches: the loop over names.  `failing` is the set
\* of branches whose branch.delete() returns an error; the `?` returns at the
\* first of them, leaving the earlier deletions in place.  A name that
\* find_branch does not find is skipped.
\* the loop with find_branch(name)? : a name that is not found ends it
RECURSIVE git_delete_loop_missing_fails(_, _, _, _)
git_delete_loop_missing_fails(repo, names, failing, removed) ==
  IF names = <<>>
    THEN [repo |-> repo, ok |-> TRUE, removed |-> removed]
    ELSE LET name == Head(names)
         IN  IF name \in repo /\ name \notin failing
               THEN git_delete_loop_missing_fails(repo \ {name}, Tail(names),
                                                  failing, removed \cup {name})
               ELSE [repo |-> repo, ok |-> FALSE, removed |-> removed]

RECURSIVE git_delete_loop(_, _, _, _)
git_delete_loop(repo, names, failing, removed) ==
  IF names = <<>>
    THEN [repo |-> repo, ok |-> TRUE, removed |-> removed]
    ELSE LET name == Head(names)
         IN  IF name \in repo
               THEN IF name \in failing
                      THEN [repo |-> repo, ok |-> FALSE, removed |-> removed]
                      ELSE git_delete_loop(repo \ {name}, Tail(names), failing,
                                           removed \cup {name})
               ELSE git_delete_loop(repo, Tail(names), failing, removed)

git_delete_branches(repo, names, failing) ==
  git_delete_loop(repo, names, failing, {})

\* --------------------------------------------------------- github.rs ----
\* What one pulls().list().per_page(1).send() can answer: an error, or a page
\* of at most one pull request.
PullRequests ==
  { [merged_at |-> Some("t"), state |-> Some("closed"), number |-> 7, title |-> Some("T")],
    [merged_at |-> None,      state |-> Some("open"),   number |-> 7, title |-> Some("T")],
    [merged_at |-> None,      state |-> Some("closed"), number |-> 7, title |-> Some("T")] }

\* Result<Page>: ok = FALSE is Err(_), otherwise items is the page's content
Responses ==
  {[ok |-> FALSE, items |-> <<>>], [ok |-> TRUE, items |-> <<>>]}
    \cup {[ok |-> TRUE, items |-> <<pr>>] : pr \in PullRequests}

\* the status computed from the first item of a page
pr_status_of(pr) ==
  IF pr.merged_at # None
    THEN "MERGED"
    ELSE IF pr.state = Some("open") THEN "OPEN" ELSE "NONE"

unwrap_or_default(title) == IF title = None THEN "" ELSE title[1]

pr_tuple(pr) == Some(<<pr_status_of(pr), pr.number, unwrap_or_default(pr.title)>>)

\* get_pr_for_branch: result1 answers the "owner:branch" query, result2 the
\* query without the owner prefix (made only when the first page is empty).
\* The value is the Option inside Ok(..): the function never returns Err.
get_pr_for_branch(result1, result2) ==
  IF ~result1.ok
    THEN None
    ELSE IF result1.items # <<>>
           THEN pr_tuple(Head(result1.items))
           ELSE IF result2.ok /\ result2.items # <<>>
                  THEN pr_tuple(Head(result2.items))
                  ELSE None

\* the match of enrich_branches on one lookup result
enrich_one(name, found) ==
  IF found # None
    THEN BCBranch_with_pr(name, found[1][1], found[1][2], found[1][3])
    ELSE BCBranch_new(name, "NONE")

\* enrich_branches whose loop ends at the first lookup that finds nothing
RECURSIVE enrich_branches_abort(_, _)
enrich_branches_abort(names, results) ==
  IF names = <<>>
    THEN <<>>
    ELSE LET found == get_pr_for_branch(Head(results)[1], Head(results)[2])
         IN  IF found = None
               THEN <<>>
               ELSE <<enrich_one(Head(names), found)>>
                      \o enrich_branches_abort(Tail(names), Tail(results))

\* GitHubClient::enrich_branches: one get_pr_for_branch per name, in order;
\* results[i] holds what the two requests for the i-th name answer
RECURSIVE enrich_branches(_, _)
enrich_branches(names, results) ==
  IF names = <<>>
    THEN <<>>
    ELSE <<enrich_one(Head(names),
                      get_pr_for_branch(Head(results)[1], Head(results)[2]))>>
           \o enrich_branches(Tail(names), Tail(results))

\* ---------------------------------------------------------- store.rs ----
\* GitHubBranchStore::list_branches
list_branches(c) == IF c = None THEN <<>> ELSE c[1]

\* GitHubBranchStore::delete_branches on (repository, cache): the value
\* returned to the caller is the unit value whatever happened.
Unit == <<>>

delete_branches(repo, c, names, failing) ==
  LET g == git_delete_branches(repo, names, failing)
  IN  IF ~g.ok
        THEN [repo |-> g.repo, cache |-> c, ok |-> FALSE,
              removed |-> g.removed, ret |-> Unit]
        ELSE [repo |-> g.repo,
              cache |-> IF c = None THEN c ELSE Some(Retain(c[1], names)),
              ok |-> TRUE, removed |-> g.removed, ret |-> Unit]

\* initial records that carry NONE, as if no lookup were pending
initial_branches_none(names) ==
  [i \in 1..Len(names) |-> BCBranch_new(names[i], "NONE")]

\* the initial_branches of load()
initial_branches(names) ==
  [i \in 1..Len(names) |-> BCBranch_new(names[i], "LOADING")]

\* ------------------------------------------------------------- state ----
VARIABLES
  git_branches,   \* local branches of the repository (a set of names)
  head,           \* Option: the checked-out branch (None: detached HEAD)
  cache,          \* GitHubBranchStore.cache : Option<Vec<BCBranch>>
  task_pc,        \* the spawned task: "none", "running", "done"
  branch_names,   \* the listing load() took and moved into the task
  enriched,       \* records the task has produced so far, in input order
  rx,             \* the unbounded channel: records sent and not yet received
  view,           \* the ViewState the interactive loop owns
  ui_pc,          \* "start", "failed", "loading", "loaded", "idle",
                  \* "deleting", "quit"
  del,            \* the Store::delete_branches call in progress
  confirmed,      \* names passed to a delete_branches call that succeeded
  mem,            \* InMemoryBranchStore.branches (the store of SpecVM)
  call,           \* the last call of SpecFn / SpecEnrich: operation and inputs
  old_task        \* the task of an earlier load(): its position, names, records

vars == <<git_branches, head, cache, task_pc, branch_names, enriched, rx,
          view, ui_pc, del, confirmed, mem, call, old_task>>

\* no earlier load(): load() has been called once at most
NoTask == [pc |-> "none", branch_names |-> <<>>, enriched |-> <<>>]

NoDelete == [names |-> <<>>, ok |-> TRUE, removed |-> {}, ret |-> Unit]

NoCall == [op |-> "none"]

Repositories ==
  { {"main"} \cup {NamePool[i] : i \in 1..k} : k \in 0..MaxBranches }

Init ==
  /\ git_branches \in Repositories
  /\ head \in {None} \cup {Some(b) : b \in git_branches \cap {NamePool[1]}}
  /\ cache = None
  /\ task_pc = "none"
  /\ branch_names = <<>>
  /\ enriched = <<>>
  /\ rx = <<>>
  /\ view = ViewState_new(<<>>)
  /\ ui_pc = "start"
  /\ del = NoDelete
  /\ old_task = NoTask
  /\ confirmed = {}
  /\ mem = <<>>
  /\ call = NoCall

\* ------------------------------------------------ interactive thread ----
\* GitHubBranchStore::load, the listing succeeds: the cache is written and
\* the task is spawned; load() has not returned yet
Load ==
  /\ ui_pc = "start"
  /\ LET names == list_local_branches(git_branches, head)
     IN  /\ branch_names' = names
         /\ cache' = Some(initial_branches(names))
  /\ task_pc' = "running"
  /\ enriched' = <<>>
  /\ rx' = <<>>
  /\ ui_pc' = "loading"
  /\ UNCHANGED <<git_branches, head, view, del, confirmed, mem, call, old_task>>

\* GitHubBranchStore::load returns Ok((initial_branches, rx)); the task it
\* spawned runs on the runtime's workers and is not ordered with this return
LoadReturn ==
  /\ ui_pc = "loading"
  /\ ui_pc' = "loaded"
  /\ UNCHANGED <<git_branches, head, cache, task_pc, branch_names, enriched,
                 rx, view, del, confirmed, mem, call, old_task>>

\* a load that writes an empty cache and spawns the task before it fails
LoadFail_spawns_task ==
  /\ ui_pc = "start"
  /\ ui_pc' = "failed"
  /\ cache' = Some(<<>>)
  /\ task_pc' = "running"
  /\ UNCHANGED <<git_branches, head, branch_names, enriched, rx, view, del,
                 confirmed, mem, call, old_task>>

\* GitHubBranchStore::load, list_local_branches()? returns the error
LoadFail ==
  /\ ui_pc = "start"
  /\ ui_pc' = "failed"
  /\ UNCHANGED <<git_branches, head, cache, task_pc, branch_names, enriched,
                 rx, view, del, confirmed, mem, call, old_task>>

\* BranchViewModel::load_initial_state
LoadInitialState ==
  /\ ui_pc = "loaded"
  /\ view' = ViewState_new(list_branches(cache))
  /\ ui_pc' = "idle"
  /\ UNCHANGED <<git_branches, head, cache, task_pc, branch_names, enriched,
                 rx, del, confirmed, mem, call, old_task>>

MoveUp ==
  /\ ui_pc = "idle"
  /\ view' = move_up(view)
  /\ UNCHANGED <<git_branches, head, cache, task_pc, branch_names, enriched,
                 rx, ui_pc, del, confirmed, mem, call, old_task>>

MoveDown ==
  /\ ui_pc = "idle"
  /\ view' = move_down(view)
  /\ UNCHANGED <<git_branches, head, cache, task_pc, branch_names, enriched,
                 rx, ui_pc, del, confirmed, mem, call, old_task>>

ToggleSelection ==
  /\ ui_pc = "idle"
  /\ view' = toggle_selection(view)
  /\ UNCHANGED <<git_branches, head, cache, task_pc, branch_names, enriched,
                 rx, ui_pc, del, confirmed, mem, call, old_task>>

\* the event loop receives one record from the channel and folds it in
ApplyUpdate ==
  /\ ui_pc = "idle"
  /\ rx # <<>>
  /\ view' = update_branch(view, Head(rx))
  /\ rx' = Tail(rx)
  /\ UNCHANGED <<git_branches, head, cache, task_pc, branch_names, enriched,
                 ui_pc, del, confirmed, mem, call, old_task>>

\* delete_selected_branches, step 1: self.store.delete_branches(&selected)
DeleteSelected ==
  /\ ui_pc = "idle"
  /\ \E failing \in {{}} \cup {{n} : n \in Range(view.selected_branches)} :
       LET r == delete_branches(git_branches, cache, view.selected_branches, failing)
       IN  /\ git_branches' = r.repo
           /\ cache' = r.cache
           /\ del' = [names |-> view.selected_branches, ok |-> r.ok,
                      removed |-> r.removed, ret |-> r.ret]
           /\ confirmed' = IF r.ok
                             THEN confirmed \cup Range(view.selected_branches)
                             ELSE confirmed
  /\ ui_pc' = "deleting"
  /\ UNCHANGED <<head, task_pc, branch_names, enriched, rx, view, mem, call, old_task>>

\* delete_selected_branches, steps 2-4: list_branches() and the new state
DeleteReload ==
  /\ ui_pc = "deleting"
  /\ view' = reload_state(view, list_branches(cache))
  /\ ui_pc' = "idle"
  /\ del' = NoDelete
  /\ UNCHANGED <<git_branches, head, cache, task_pc, branch_names, enriched,
                 rx, confirmed, mem, call, old_task>>

\* a quit that joins the spawned task before the event loop exits
Quit_waits ==
  /\ ui_pc = "idle"
  /\ task_pc = "done"
  /\ ui_pc' = "quit"
  /\ rx' = <<>>
  /\ UNCHANGED <<git_branches, head, cache, task_pc, branch_names, enriched,
                 view, del, confirmed, mem, call, old_task>>

\* 'q': the event loop exits and the receiver is dropped
Quit ==
  /\ ui_pc = "idle"
  /\ ui_pc' = "quit"
  /\ rx' = <<>>
  /\ UNCHANGED <<git_branches, head, cache, task_pc, branch_names, enriched,
                 view, del, confirmed, mem, call, old_task>>

\* ------------------------------------------------------ spawned task ----
\* one lookup completes; its record is sent on the channel (a send to a
\* dropped receiver is lost) and kept for the final cache write
TaskLookup ==
  /\ task_pc = "running"
  /\ Len(enriched) < Len(branch_names)
  /\ \E result1 \in Responses, result2 \in Responses :
       LET name == branch_names[Len(enriched) + 1]
           branch == enrich_one(name, get_pr_for_branch(result1, result2))
       IN  /\ enriched' = Append(enriched, branch)
           /\ rx' = IF ui_pc = "quit" THEN rx ELSE Append(rx, branch)
  /\ UNCHANGED <<git_branches, head, cache, task_pc, branch_names, view,
                 ui_pc, del, confirmed, mem, call, old_task>>

\* a task that stores what it has so far into the cache after each lookup
TaskFinalWrite_partial ==
  /\ task_pc = "running"
  /\ cache' = Some(enriched)
  /\ task_pc' = IF Len(enriched) = Len(branch_names) THEN "done" ELSE "running"
  /\ UNCHANGED <<git_branches, head, branch_names, enriched, rx, view,
                 ui_pc, del, confirmed, mem, call, old_task>>

\* a task that ends without storing its records
TaskFinalWrite_skips ==
  /\ task_pc = "running"
  /\ Len(enriched) = Len(branch_names)
  /\ task_pc' = "done"
  /\ UNCHANGED <<git_branches, head, cache, branch_names, enriched, rx, view,
                 ui_pc, del, confirmed, mem, call, old_task>>

\* *cache.lock().unwrap() = Some(enriched)
TaskFinalWrite ==
  /\ task_pc = "running"
  /\ Len(enriched) = Len(branch_names)
  /\ cache' = Some(enriched)
  /\ task_pc' = "done"
  /\ UNCHANGED <<git_branches, head, branch_names, enriched, rx, view,
                 ui_pc, del, confirmed, mem, call, old_task>>

Next ==
  \/ Load
  \/ LoadReturn
  \/ LoadFail
  \/ LoadInitialState
  \/ MoveUp
  \/ MoveDown
  \/ ToggleSelection
  \/ ApplyUpdate
  \/ DeleteSelected
  \/ DeleteReload
  \/ Quit
  \/ TaskLookup
  \/ TaskFinalWrite

Spec == Init /\ [][Next]_vars

\* The program without the cursor keys: the cursor stays on the first branch.
\* The task reads neither the cursor nor the marks; what the interactive
\* thread does to the state the task shares with it (the cache, the channel)
\* is all here.
NextTask ==
  \/ Load
  \/ LoadReturn
  \/ LoadFail
  \/ LoadInitialState
  \/ ToggleSelection
  \/ ApplyUpdate
  \/ DeleteSelected
  \/ DeleteReload
  \/ Quit
  \/ TaskLookup
  \/ TaskFinalWrite

\* The runtime keeps polling the spawned task and every request returns: a
\* step of the task that is possible is eventually taken.
SpecFair ==
  Init /\ [][NextTask]_vars /\ WF_vars(TaskLookup) /\ WF_vars(TaskFinalWrite)

\* ---------------------------------------- ViewModel over the in-memory store ----
\* delete_branches whose retain keeps the named records instead of the others
mem_delete_branches_inverted(branches, names) ==
  SelectSeq(branches, LAMBDA b : Contains(names, b.name))

\* delete_branches that removes the first named record only
mem_delete_branches_first_only(branches, names) ==
  LET hits == {i \in 1..Len(branches) : Contains(names, branches[i].name)}
  IN  IF hits = {}
        THEN branches
        ELSE RemoveAt(branches, CHOOSE i \in hits : \A j \in hits : i <= j)

\* InMemoryBranchStore::delete_branches
mem_delete_branches(branches, names) == Retain(branches, names)

\* InMemoryBranchStore::list_branches
mem_list_branches(branches) == branches

\* a BCBranch as the tests build them: number and title only with a pull request
TestBranch(name, status) ==
  IF status \in {"OPEN", "MERGED", "CLOSED"}
    THEN BCBranch_with_pr(name, status, 7, "T")
    ELSE BCBranch_new(name, status)

\* The statuses the store's records start with.  The ViewModel compares a
\* status with MERGED and with LOADING only (view_model.rs:19,96,115,116), so
\* OPEN stands for the other statuses here; update records carry all five.
StoreStatuses == {"LOADING", "MERGED", "OPEN"}

\* every list of test branches over the first k names
TestBranchLists ==
  UNION { { [i \in 1..k |-> TestBranch(NamePool[i], st[i])] : st \in [1..k -> StoreStatuses] }
          : k \in 0..MaxBranches }

\* InMemoryBranchStore::new(branches) then load_initial_state()
InitVM ==
  /\ mem \in TestBranchLists
  /\ view = ViewState_new(mem_list_branches(mem))
  /\ ui_pc = "idle"
  /\ git_branches = {}
  /\ head = None
  /\ cache = None
  /\ task_pc = "none"
  /\ branch_names = <<>>
  /\ enriched = <<>>
  /\ rx = <<>>
  /\ del = NoDelete
  /\ old_task = NoTask
  /\ confirmed = {}
  /\ call = NoCall

\* a record arrives for the event loop: any status, a known or an unknown name
Arrive ==
  /\ rx = <<>>
  /\ \E name \in FeatureNames \cup {"unknown-branch"}, status \in PrStatus :
       rx' = <<TestBranch(name, status)>>
  /\ UNCHANGED <<git_branches, head, cache, task_pc, branch_names, enriched,
                 view, ui_pc, del, confirmed, mem, call, old_task>>

\* delete_selected_branches with T = InMemoryBranchStore (one thread: one step)
MemDeleteSelected ==
  /\ ui_pc = "idle"
  /\ mem' = mem_delete_branches(mem, view.selected_branches)
  /\ view' = reload_state(view, mem_list_branches(mem'))
  /\ UNCHANGED <<git_branches, head, cache, task_pc, branch_names, enriched,
                 rx, ui_pc, del, confirmed, call, old_task>>

NextVM ==
  \/ MemDeleteSelected
  \/ MoveUp
  \/ MoveDown
  \/ ToggleSelection
  \/ Arrive
  \/ ApplyUpdate

SpecVM == InitVM /\ [][NextVM]_vars

\* ------------------------------ the ViewState operations, call by call ----
\* every list of test branches over the first k names, any status
AllBranchLists ==
  UNION { { [i \in 1..k |-> TestBranch(NamePool[i], st[i])] : st \in [1..k -> PrStatus] }
          : k \in 0..MaxBranches }

\* selected_branches values: the names of a subset, in any order, each once
MarkLists(names) ==
  UNION { { s \in [1..k -> names] : NoDuplicates(s) } : k \in 0..Cardinality(names) }

\* the ViewStates the handlers produce: cursor in range, marks among the names
ViewStates ==
  UNION { { [branches |-> b, selected_index |-> i, selected_branches |-> m]
              : i \in 0..Max(0, Len(b) - 1), m \in MarkLists(NameSet(b)) }
          : b \in AllBranchLists }

\* the records update_branch can be handed: any status, a known or unknown name
Updates ==
  { TestBranch(name, status) : name \in FeatureNames \cup {"unknown-branch"},
                               status \in PrStatus }

InitFn ==
  /\ view \in ViewStates
  /\ call = NoCall
  /\ ui_pc = "idle"
  /\ git_branches = {}
  /\ head = None
  /\ cache = None
  /\ task_pc = "none"
  /\ branch_names = <<>>
  /\ enriched = <<>>
  /\ rx = <<>>
  /\ del = NoDelete
  /\ old_task = NoTask
  /\ confirmed = {}
  /\ mem = <<>>

\* ViewState::new(branches)
FnNew ==
  /\ \E branches \in AllBranchLists :
       /\ view' = ViewState_new(branches)
       /\ call' = [op |-> "new", branches |-> branches]
  /\ UNCHANGED <<git_branches, head, cache, task_pc, branch_names, enriched,
                 rx, ui_pc, del, confirmed, mem, old_task>>

\* update_branch(updated_branch)
FnUpdateBranch ==
  /\ \E updated_branch \in Updates :
       /\ view' = update_branch(view, updated_branch)
       /\ call' = [op |-> "update_branch", state |-> view,
                   updated_branch |-> updated_branch]
  /\ UNCHANGED <<git_branches, head, cache, task_pc, branch_names, enriched,
                 rx, ui_pc, del, confirmed, mem, old_task>>

\* toggle_selection()
FnToggleSelection ==
  /\ view' = toggle_selection(view)
  /\ call' = [op |-> "toggle_selection", state |-> view]
  /\ UNCHANGED <<git_branches, head, cache, task_pc, branch_names, enriched,
                 rx, ui_pc, del, confirmed, mem, old_task>>

\* move_up()
FnMoveUp ==
  /\ view' = move_up(view)
  /\ call' = [op |-> "move_up", state |-> view]
  /\ UNCHANGED <<git_branches, head, cache, task_pc, branch_names, enriched,
                 rx, ui_pc, del, confirmed, mem, old_task>>

\* move_down()
FnMoveDown ==
  /\ view' = move_down(view)
  /\ call' = [op |-> "move_down", state |-> view]
  /\ UNCHANGED <<git_branches, head, cache, task_pc, branch_names, enriched,
                 rx, ui_pc, del, confirmed, mem, old_task>>

NextFn ==
  \/ FnNew
  \/ FnUpdateBranch
  \/ FnToggleSelection
  \/ FnMoveUp
  \/ FnMoveDown

SpecFn == InitFn /\ [][NextFn]_vars

\* ------------------------------------------- enrich_branches, one batch ----
\* the lists of names enrich_branches can be handed (a name can repeat)
NameLists == UNION { [1..k -> FeatureNames] : k \in 0..MaxBranches }

InitEnrich ==
  /\ branch_names \in NameLists
  /\ enriched = <<>>
  /\ task_pc = "none"
  /\ call = NoCall
  /\ ui_pc = "start"
  /\ git_branches = {}
  /\ head = None
  /\ cache = None
  /\ rx = <<>>
  /\ view = ViewState_new(<<>>)
  /\ del = NoDelete
  /\ old_task = NoTask
  /\ confirmed = {}
  /\ mem = <<>>

\* enrich_branches(branch_names) with the answers of the remote API
EnrichBranches ==
  /\ task_pc = "none"
  /\ \E results \in [1..Len(branch_names) -> Responses \X Responses] :
       /\ enriched' = enrich_branches(branch_names, results)
       /\ call' = [op |-> "enrich_branches", results |-> results]
  /\ task_pc' = "done"
  /\ UNCHANGED <<git_branches, head, cache, branch_names, rx, view, ui_pc,
                 del, confirmed, mem, old_task>>

NextEnrich == EnrichBranches

SpecEnrich == InitEnrich /\ [][NextEnrich]_vars

\* ------------------------------------- start-up: new(), load(), the task ----
\* What find_remote("origin"), remote.url(), GitUrl::parse and provider_info
\* answer for the repository's origin: each step can fail, the last gives the
\* owner and the repository name.
Origins ==
  { [found |-> FALSE, utf8 |-> FALSE, parse_ok |-> FALSE, provider_ok |-> FALSE],
    [found |-> TRUE,  utf8 |-> FALSE, parse_ok |-> FALSE, provider_ok |-> FALSE],
    [found |-> TRUE,  utf8 |-> TRUE,  parse_ok |-> FALSE, provider_ok |-> FALSE],
    [found |-> TRUE,  utf8 |-> TRUE,  parse_ok |-> TRUE,  provider_ok |-> FALSE],
    [found |-> TRUE,  utf8 |-> TRUE,  parse_ok |-> TRUE,  provider_ok |-> TRUE] }

\* GITHUB_TOKEN: unset, set to a value the client builder rejects, or usable
Tokens ==
  { [set |-> FALSE, build_ok |-> FALSE],
    [set |-> TRUE,  build_ok |-> FALSE],
    [set |-> TRUE,  build_ok |-> TRUE] }

Err(error) == [ok |-> FALSE, error |-> error, authenticated |-> FALSE]

\* get_origin_url followed by parse_github_remote
origin_owner_repo(origin) ==
  IF ~origin.found
    THEN Err("NoOriginRemote")
    ELSE IF ~origin.utf8 \/ ~origin.parse_ok \/ ~origin.provider_ok
           THEN Err("RemoteParseError")
           ELSE [ok |-> TRUE, error |-> "", authenticated |-> FALSE]

\* GitHubClient::from_env(..).is_ok()
from_env_ok(token) == token.set /\ token.build_ok

\* new() with from_env(..)? : no client without a token
GitHubBranchStore_new_requires_token(env) ==
  IF ~env.repo_found
    THEN Err("GitError")
    ELSE LET remote == origin_owner_repo(env.origin)
         IN  IF ~remote.ok
               THEN remote
               ELSE IF from_env_ok(env.token)
                      THEN [ok |-> TRUE, error |-> "", authenticated |-> TRUE]
                      ELSE Err("TokenNotFound")

\* GitHubBranchStore::new: the Result, and for Ok whether the client is the
\* authenticated one (from_env) or the one of GitHubClient::offline
GitHubBranchStore_new(env) ==
  IF ~env.repo_found
    THEN Err("GitError")
    ELSE LET remote == origin_owner_repo(env.origin)
         IN  IF ~remote.ok
               THEN remote
               ELSE [ok |-> TRUE, error |-> "",
                     authenticated |-> from_env_ok(env.token)]

InitStart ==
  /\ \E repo_found \in BOOLEAN, origin \in Origins, token \in Tokens :
       /\ call = [op |-> "none",
                  env |-> [repo_found |-> repo_found, origin |-> origin,
                           token |-> token]]
       /\ git_branches \in (IF repo_found THEN Repositories ELSE {{}})
  /\ head \in {None} \cup {Some(b) : b \in git_branches \cap {NamePool[1]}}
  /\ cache = None
  /\ task_pc = "none"
  /\ branch_names = <<>>
  /\ enriched = <<>>
  /\ rx = <<>>
  /\ view = ViewState_new(<<>>)
  /\ ui_pc = "new"
  /\ del = NoDelete
  /\ old_task = NoTask
  /\ confirmed = {}
  /\ mem = <<>>

\* GitHubBranchStore::new(path): an error ends the start-up
StoreNew ==
  /\ ui_pc = "new"
  /\ LET result == GitHubBranchStore_new(call.env)
     IN  /\ call' = [op |-> "new", env |-> call.env, result |-> result]
         /\ ui_pc' = IF result.ok THEN "start" ELSE "failed"
  /\ cache' = None
  /\ UNCHANGED <<git_branches, head, task_pc, branch_names, enriched, rx,
                 view, del, confirmed, mem, old_task>>

NextStart ==
  \/ StoreNew
  \/ Load
  \/ LoadReturn
  \/ LoadFail
  \/ TaskLookup
  \/ TaskFinalWrite

SpecStart == InitStart /\ [][NextStart]_vars

\* ----------------------- the updates of one load, arriving in any order ----
\* the lists a finished enrichment can hold: no record is LOADING any more
ResolvedLists ==
  { b \in AllBranchLists : \A i \in 1..Len(b) : b[i].pr_status # "LOADING" }

\* ViewState::new over the LOADING records of load(); `enriched` holds the
\* records the lookups will give, call.applied the positions already folded in
InitOrder ==
  /\ enriched \in ResolvedLists
  /\ branch_names = Names(enriched)
  /\ view = ViewState_new(initial_branches(branch_names))
  /\ call = [op |-> "new", applied |-> <<>>]
  /\ ui_pc = "idle"
  /\ git_branches = {}
  /\ head = None
  /\ cache = None
  /\ task_pc = "none"
  /\ rx = <<>>
  /\ del = NoDelete
  /\ old_task = NoTask
  /\ confirmed = {}
  /\ mem = <<>>

\* update_branch with the record of a branch whose update has not arrived yet
ApplyInAnyOrder ==
  /\ ui_pc = "idle"
  /\ \E i \in (1..Len(enriched)) \ Range(call.applied) :
       /\ view' = update_branch(view, enriched[i])
       /\ call' = [op |-> "update_branch", applied |-> Append(call.applied, i)]
  /\ UNCHANGED <<git_branches, head, cache, task_pc, branch_names, enriched,
                 rx, ui_pc, del, confirmed, mem, old_task>>

NextOrder ==
  \/ ApplyInAnyOrder
  \/ MoveUp
  \/ MoveDown

SpecOrder == InitOrder /\ [][NextOrder]_vars

\* ------------------------------ load() called again on the same store ----
\* GitHubBranchStore::delete_branches called by the owner of the store
\* between the two loads
StoreDelete ==
  /\ ui_pc = "loaded"
  /\ old_task = NoTask
  /\ \E name \in NameSet(list_branches(cache)) :
       \E failing \in SUBSET {name} :
         LET r == delete_branches(git_branches, cache, <<name>>, failing)
         IN  /\ git_branches' = r.repo
             /\ cache' = r.cache
  /\ UNCHANGED <<head, task_pc, branch_names, enriched, rx, view, ui_pc, del,
                 confirmed, mem, call, old_task>>

\* GitHubBranchStore::load called a second time: the listing is made again,
\* the cache is overwritten with its LOADING records, a new channel and a new
\* task are created; the task of the first load is neither joined nor
\* aborted and keeps its clone of the cache handle
LoadAgain ==
  /\ ui_pc = "loaded"
  /\ old_task = NoTask
  /\ old_task' = [pc |-> task_pc, branch_names |-> branch_names,
                  enriched |-> enriched]
  /\ LET names == list_local_branches(git_branches, head)
     IN  /\ branch_names' = names
         /\ cache' = Some(initial_branches(names))
  /\ task_pc' = "running"
  /\ enriched' = <<>>
  /\ rx' = <<>>
  /\ ui_pc' = "reloaded"
  /\ UNCHANGED <<git_branches, head, view, del, confirmed, mem, call>>

\* the second load fails on the listing
LoadAgainFail ==
  /\ ui_pc = "loaded"
  /\ old_task = NoTask
  /\ ui_pc' = "failed"
  /\ UNCHANGED <<git_branches, head, cache, task_pc, branch_names, enriched,
                 rx, view, del, confirmed, mem, call, old_task>>

\* one lookup of the first load's task completes; its record goes to the
\* channel of the first load, whose receiver the caller no longer reads
OldTaskLookup ==
  /\ old_task.pc = "running"
  /\ Len(old_task.enriched) < Len(old_task.branch_names)
  /\ \E result1 \in Responses, result2 \in Responses :
       LET name == old_task.branch_names[Len(old_task.enriched) + 1]
           branch == enrich_one(name, get_pr_for_branch(result1, result2))
       IN  old_task' = [old_task EXCEPT !.enriched = Append(@, branch)]
  /\ UNCHANGED <<git_branches, head, cache, task_pc, branch_names, enriched,
                 rx, view, ui_pc, del, confirmed, mem, call>>

\* *cache.lock().unwrap() = Some(enriched) in the first load's task
OldTaskFinalWrite ==
  /\ old_task.pc = "running"
  /\ Len(old_task.enriched) = Len(old_task.branch_names)
  /\ cache' = Some(old_task.enriched)
  /\ old_task' = [old_task EXCEPT !.pc = "done"]
  /\ UNCHANGED <<git_branches, head, task_pc, branch_names, enriched, rx,
                 view, ui_pc, del, confirmed, mem, call>>

NextReload ==
  \/ Load
  \/ LoadReturn
  \/ LoadFail
  \/ StoreDelete
  \/ LoadAgain
  \/ LoadAgainFail
  \/ TaskLookup
  \/ TaskFinalWrite
  \/ OldTaskLookup
  \/ OldTaskFinalWrite

SpecReload == Init /\ [][NextReload]_vars

\* ============================================================ claims ====
\* the record of name n in a branch list (the list holds n)
RecordOf(branches, n) == branches[Position(Names(branches), n)]

\* a step of the event loop that received Head(rx) and applied it
ApplyStep == ui_pc = "idle" /\ ui_pc' = "idle" /\ rx # <<>> /\ rx' = Tail(rx)

\* a step that completes delete_selected_branches
ReloadStep == ui_pc = "deleting" /\ ui_pc' = "idle"

\* C1: after load() the cache holds exactly the load-time listing minus the
\* names whose deletion was confirmed (passed to a delete that succeeded), each
\* once, whatever the interleaving with the spawned task's final cache write.
C1_CacheIsListingMinusDeleted ==
  cache # None =>
    /\ NameSet(cache[1]) = Range(branch_names) \ confirmed
    /\ NoDuplicates(Names(cache[1]))

\* C2: once the record of branch b has been produced by the task, list() does
\* not show b as LOADING, and once the event loop has received it the ViewState
\* does not show b as LOADING (also after a reload by deleteMarked).
C2_NoLoadingAfterEnrichment ==
  \A b \in NameSet(enriched) :
    /\ b \in NameSet(list_branches(cache)) =>
         RecordOf(list_branches(cache), b).pr_status # "LOADING"
    /\ (ui_pc \in {"idle", "deleting"} /\ b \notin NameSet(rx)
          /\ b \in NameSet(view.branches)) =>
         RecordOf(view.branches, b).pr_status # "LOADING"

\* C3: a successful deleteMarked with a non-empty marked set passes exactly the
\* marked names to Store.delete (none of them is left in the repository), and
\* ends with branches = Store.list(), marked = the MERGED names of that list,
\* selected_index = 0.
C3_DeleteMarkedReloads ==
  [][ (ReloadStep /\ del.ok /\ del.names # <<>>) =>
        /\ del.names = view.selected_branches
        /\ Range(del.names) \cap git_branches = {}
        /\ view'.branches = list_branches(cache')
        /\ Range(view'.selected_branches) =
             {b.name : b \in {x \in Range(view'.branches) : x.pr_status = "MERGED"}}
        /\ view'.selected_index = 0 ]_vars

C3_Witness ==
  /\ ui_pc = "idle"
  /\ confirmed # {}
  /\ view.branches # <<>>
  /\ view.branches = list_branches(cache)
  /\ view.selected_index = 0

\* C4: deleteMarked with an empty marked set is a no-op: branches, marked and
\* selected_index are what they were before the call.
C4_EmptyMarkedIsNoOp ==
  [][ (ReloadStep /\ del.names = <<>>) => view' = view ]_vars

\* C5: when the repository delete fails after deleting some of the names,
\* Store.delete drops from the cache the names that were deleted.
C5_PartialFailureDropsDeleted ==
  (ui_pc = "deleting" /\ ~del.ok) =>
    NameSet(list_branches(cache)) \cap del.removed = {}

\* C6: a failed Store.delete returns an error value to the ViewModel, not the
\* value a successful delete returns.
C6_FailureIsReported ==
  (ui_pc = "deleting" /\ ~del.ok) => del.ret # Unit

\* C7: 0 <= selected_index <= max(0, len(branches) - 1) in every ViewState.
C7_CursorInBounds ==
  /\ 0 <= view.selected_index
  /\ view.selected_index <= Max(0, Len(view.branches) - 1)

\* the cursor stands on the last of at least two branches
C7_Witness ==
  /\ view.selected_index >= 1
  /\ view.selected_index = Len(view.branches) - 1

\* C8: every marked name is the name of a record in branches.
C8_MarkedSubsetOfBranches ==
  Range(view.selected_branches) \subseteq NameSet(view.branches)

\* marks exist after a deleteMarked whose delete failed half way: a displayed
\* branch is gone from the repository without a successful delete of it
C8_Witness ==
  /\ ui_pc = "idle"
  /\ view.selected_branches # <<>>
  /\ \E n \in NameSet(view.branches) : n \notin git_branches /\ n \notin confirmed

\* C9: applyUpdate of a MERGED record for a present name whose record is
\* LOADING puts the name in marked and replaces the record at its position.
C9_LoadingToMergedIsMarked ==
  [][ ApplyStep =>
        LET u == Head(rx)
            pos == Position(Names(view.branches), u.name)
        IN  (pos # 0 /\ view.branches[pos].pr_status = "LOADING"
               /\ u.pr_status = "MERGED") =>
              /\ Contains(view'.selected_branches, u.name)
              /\ view'.branches[pos] = u ]_vars

\* a branch is displayed MERGED and marked while the cache still holds the
\* LOADING list: its status came from an update
C9_Witness ==
  /\ ui_pc = "idle"
  /\ task_pc = "running"
  /\ \E i \in 1..Len(view.branches) :
       /\ view.branches[i].pr_status = "MERGED"
       /\ Contains(view.selected_branches, view.branches[i].name)

\* C10: applyUpdate for a present name leaves marked unchanged unless the
\* prior status is LOADING and the new one MERGED.
C10_OtherTransitionsKeepMarked ==
  [][ ApplyStep =>
        LET u == Head(rx)
            pos == Position(Names(view.branches), u.name)
        IN  (pos # 0 /\ ~(view.branches[pos].pr_status = "LOADING"
                            /\ u.pr_status = "MERGED")) =>
              view'.selected_branches = view.selected_branches ]_vars

\* a marked branch the store holds as MERGED is displayed OPEN: the downgrade
\* was applied and the mark is still there
C10_Witness ==
  /\ rx = <<>>
  /\ \E i \in 1..Len(view.branches) :
       /\ view.branches[i].pr_status = "OPEN"
       /\ Contains(view.selected_branches, view.branches[i].name)
       /\ view.branches[i].name \in NameSet(mem)
       /\ RecordOf(mem, view.branches[i].name).pr_status = "MERGED"

\* C11: update_branch with a record whose name is not in branches leaves the
\* whole ViewState (branches, selected_index, selected_branches) as it was,
\* whatever the record's status.
C11_UnknownNameChangesNothing ==
  (call.op = "update_branch"
     /\ call.updated_branch.name \notin NameSet(call.state.branches)) =>
    view = call.state

\* a MERGED record of an unknown name was applied to a list with a LOADING
\* branch and a mark
C11_Witness ==
  /\ call.op = "update_branch"
  /\ call.updated_branch.name \notin NameSet(call.state.branches)
  /\ call.updated_branch.pr_status = "MERGED"
  /\ \E b \in Range(call.state.branches) : b.pr_status = "LOADING"
  /\ call.state.selected_branches # <<>>

\* C12: update_branch keeps the length of branches, the name at every
\* position and selected_index; only the record with the matching name is
\* replaced, by the update, in place.
C12_UpdateKeepsShape ==
  call.op = "update_branch" =>
    /\ Len(view.branches) = Len(call.state.branches)
    /\ Names(view.branches) = Names(call.state.branches)
    /\ view.selected_index = call.state.selected_index
    /\ \A i \in 1..Len(view.branches) :
         \/ view.branches[i] = call.state.branches[i]
         \/ view.branches[i] = call.updated_branch

\* the record under the second position was replaced while the cursor stood
\* on the first
C12_Witness ==
  /\ call.op = "update_branch"
  /\ Len(view.branches) >= 2
  /\ view.selected_index = 0
  /\ view.branches[2] = call.updated_branch
  /\ view.branches[2] # call.state.branches[2]

\* the record load() builds for a name: LOADING, no pull-request number, no title
LoadingRecord(name) ==
  [name |-> name, pr_status |-> "LOADING", pr_number |-> None, pr_title |-> None]

\* the names the repository lists: local, not protected, not checked out
Listed == (git_branches \ PROTECTED_BRANCHES) \ Range(head)

\* C13 as stated: when load() has returned and the caller has done nothing
\* else, list() has one record per listed name, in listing order, each LOADING
\* with no pull-request number or title.
C13_ListAfterLoadIsLoading ==
  ui_pc = "loaded" =>
    /\ Range(branch_names) = Listed
    /\ list_branches(cache) =
         [i \in 1..Len(branch_names) |-> LoadingRecord(branch_names[i])]

\* C13, amended: when load() has returned and the caller has done nothing
\* else, list() has one record per listed name, in listing order; each is
\* LOADING with no pull-request number or title, unless the spawned task has
\* already finished, and then it is the record the task produced for the name.
C13_ListAfterLoad ==
  ui_pc = "loaded" =>
    /\ Range(branch_names) = Listed
    /\ NoDuplicates(branch_names)
    /\ Names(list_branches(cache)) = branch_names
    /\ \A i \in 1..Len(branch_names) :
         \/ list_branches(cache)[i] = LoadingRecord(branch_names[i])
         \/ task_pc = "done" /\ list_branches(cache)[i] = enriched[i]

\* load() has returned for two listed branches and no lookup has completed
C13_Witness ==
  /\ ui_pc = "loaded"
  /\ Len(branch_names) >= 2
  /\ task_pc = "running"
  /\ enriched = <<>>
  /\ list_branches(cache) # <<>>

\* C14: on the step that returns from load(), the returned initial sequence
\* equals the content of the cache, whatever the spawned task has done since
\* it was spawned.
C14_ReturnedEqualsCache ==
  [][ (ui_pc = "loading" /\ ui_pc' = "loaded") =>
        list_branches(cache) = initial_branches(branch_names) ]_vars

\* C15: what list() returns after load() is a complete sequence: the full
\* LOADING sequence or the full enriched sequence, less names whose deletion
\* succeeded; never a part of the sequence the task is building.
C15_ListIsComplete ==
  cache # None =>
    \E full \in {initial_branches(branch_names)}
                  \cup (IF Len(enriched) = Len(branch_names) THEN {enriched} ELSE {}) :
      /\ list_branches(cache) =
           SelectSeq(full, LAMBDA b : b.name \in NameSet(list_branches(cache)))
      /\ NameSet(full) \ NameSet(list_branches(cache)) \subseteq confirmed

\* while the task is between two lookups, list() returns the LOADING
\* sequence less a deleted name
C15_Witness ==
  /\ task_pc = "running"
  /\ enriched # <<>>
  /\ Len(enriched) < Len(branch_names)
  /\ cache # None
  /\ list_branches(cache) # <<>>
  /\ Len(list_branches(cache)) < Len(branch_names)

\* the lookup of the i-th name found no pull request: its first request
\* failed, or answered an empty page and the second failed or was empty too
NothingFound(i) ==
  LET result1 == call.results[i][1]
      result2 == call.results[i][2]
  IN  \/ ~result1.ok
      \/ result1.items = <<>> /\ (~result2.ok \/ result2.items = <<>>)

\* C16: enrich_branches returns one record per input name, in input order,
\* carrying that name; a lookup that fails or finds nothing gives the record
\* NONE without number and title (a failed first request is not repeated), and
\* the names after it are still processed.
C16_OneRecordPerName ==
  call.op = "enrich_branches" =>
    /\ Len(enriched) = Len(branch_names)
    /\ \A i \in 1..Len(branch_names) :
         /\ enriched[i].name = branch_names[i]
         /\ NothingFound(i) =>
              enriched[i] = [name |-> branch_names[i], pr_status |-> "NONE",
                             pr_number |-> None, pr_title |-> None]

\* the first lookup failed and the second name still got its merged record
C16_Witness ==
  /\ call.op = "enrich_branches"
  /\ Len(branch_names) >= 2
  /\ ~call.results[1][1].ok
  /\ enriched[1].pr_status = "NONE"
  /\ enriched[2].pr_status = "MERGED"

\* C17: every record the store or the lookup produces has a pull-request
\* number and a title exactly when its status is OPEN, MERGED or CLOSED.
C17_PrFieldsIffFound ==
  \A b \in Range(list_branches(cache)) \cup Range(enriched) :
    /\ b.pr_number # None <=> b.pr_status \in {"OPEN", "MERGED", "CLOSED"}
    /\ b.pr_title # None <=> b.pr_status \in {"OPEN", "MERGED", "CLOSED"}

\* C18: ViewState::new(branches) has selected_index 0, the input as branches,
\* and selects exactly the names whose status is MERGED (none with OPEN,
\* CLOSED, NONE or LOADING); building it again from its own branches selects
\* the same names.
C18_NewSelectsMerged ==
  call.op = "new" =>
    /\ view.selected_index = 0
    /\ view.branches = call.branches
    /\ Range(view.selected_branches) =
         {b.name : b \in {x \in Range(call.branches) : x.pr_status = "MERGED"}}
    /\ \A b \in Range(call.branches) :
         b.pr_status \in {"OPEN", "CLOSED", "NONE", "LOADING"} =>
           ~Contains(view.selected_branches, b.name)
    /\ Range(ViewState_new(view.branches).selected_branches) =
         Range(view.selected_branches)

\* a list with a merged and a closed branch was given to ViewState::new
C18_Witness ==
  /\ call.op = "new"
  /\ \E b \in Range(call.branches) : b.pr_status = "MERGED"
  /\ \E b \in Range(call.branches) : b.pr_status = "CLOSED"
  /\ Len(view.selected_branches) = 1

\* C19: toggle_selection changes neither branches nor selected_index; on a
\* non-empty list it flips the membership of the name under the cursor and of
\* no other name; on an empty list it changes nothing.
C19_ToggleFlipsCursorName ==
  call.op = "toggle_selection" =>
    LET before == call.state
    IN  /\ view.branches = before.branches
        /\ view.selected_index = before.selected_index
        /\ IF before.branches = <<>>
             THEN view = before
             ELSE LET n == before.branches[before.selected_index + 1].name
                  IN  /\ Contains(view.selected_branches, n)
                           <=> ~Contains(before.selected_branches, n)
                      /\ Range(view.selected_branches) \ {n}
                           = Range(before.selected_branches) \ {n}

\* the name under the cursor was unmarked while another name stayed marked
C19_Witness ==
  /\ call.op = "toggle_selection"
  /\ Len(call.state.selected_branches) = 2
  /\ Len(view.selected_branches) = 1
  /\ view.selected_branches[1] # view.branches[view.selected_index + 1].name

\* C20: after one toggle_selection, a second one at the same cursor gives the
\* set of selected names back that the first one started from.
C20_ToggleTwiceRestoresSet ==
  call.op = "toggle_selection" =>
    Range(toggle_selection(view).selected_branches)
      = Range(call.state.selected_branches)

\* the second toggle gives the same names back in another order
C20_Witness ==
  /\ call.op = "toggle_selection"
  /\ view.selected_index = call.state.selected_index
  /\ call.state.selected_branches # <<>>
  /\ toggle_selection(view).selected_branches # call.state.selected_branches

\* C21: move_down adds 1 to selected_index unless it is len(branches) - 1 (or
\* the list is empty), move_up subtracts 1 unless it is 0; otherwise they
\* change nothing, and neither changes branches or selected_branches.
C21_MovesStepByOne ==
  /\ call.op = "move_down" =>
       LET before == call.state
       IN  /\ view.branches = before.branches
           /\ view.selected_branches = before.selected_branches
           /\ view.selected_index =
                IF before.branches # <<>>
                     /\ before.selected_index # Len(before.branches) - 1
                  THEN before.selected_index + 1
                  ELSE before.selected_index
  /\ call.op = "move_up" =>
       LET before == call.state
       IN  /\ view.branches = before.branches
           /\ view.selected_branches = before.selected_branches
           /\ view.selected_index =
                IF before.selected_index # 0
                  THEN before.selected_index - 1
                  ELSE before.selected_index

\* move_up was called with the cursor on the first of at least two branches,
\* some of them marked
C21_Witness ==
  /\ call.op = "move_up"
  /\ call.state.selected_index = 0
  /\ Len(call.state.branches) >= 2
  /\ call.state.selected_branches # <<>>
  /\ view = call.state

\* a step of delete_selected_branches over the in-memory store
MemDeleteStep ==
  /\ mem' = mem_delete_branches(mem, view.selected_branches)
  /\ view' = reload_state(view, mem_list_branches(mem'))
  /\ rx' = rx

\* delete_selected_branches called now deletes nothing and leaves the
\* ViewState as it is
DeleteIsNoOp ==
  /\ mem_delete_branches(mem, view.selected_branches) = mem
  /\ reload_state(view, mem_list_branches(mem)) = view

\* C22 as stated: right after a delete_selected_branches, a second one
\* deletes nothing and leaves the ViewState as the first left it, from every
\* starting ViewState.
C22_SecondDeleteIsNoOp ==
  [][ MemDeleteStep => DeleteIsNoOp' ]_vars

\* C22, amended: right after a delete_selected_branches that was called with
\* every MERGED branch of the store marked, a second one deletes nothing and
\* leaves the ViewState as the first left it.
C22_SecondDeleteIsNoOpWhenMergedWereMarked ==
  [][ (MemDeleteStep
         /\ Range(MergedNames(mem)) \subseteq Range(view.selected_branches)) =>
        DeleteIsNoOp' ]_vars

\* a delete removed the first branch and left a list without marks
C22_Witness ==
  /\ mem # <<>>
  /\ mem[1].name # NamePool[1]
  /\ view = reload_state(view, mem_list_branches(mem))
  /\ view.selected_branches = <<>>

\* C23: once load() has spawned the task, the task eventually has a record
\* for every listed name and has replaced the cache by them, and from then on
\* list() shows no LOADING record.
C23_EnrichmentCompletes ==
  (task_pc = "running") ~>
    [](/\ task_pc = "done"
       /\ Names(enriched) = branch_names
       /\ \A b \in Range(list_branches(cache)) : b.pr_status # "LOADING")

\* the task has finished for two branches and list() shows both resolved
C23_Witness ==
  /\ task_pc = "done"
  /\ Len(list_branches(cache)) >= 2
  /\ list_branches(cache) = enriched

\* C24: the task emits at most one record per branch name, and a branch the
\* ViewState shows with a status other than LOADING is not shown as LOADING
\* again: its record leaves LOADING once.
C24_LeavesLoadingOnce ==
  [][ /\ NoDuplicates(Names(enriched'))
      /\ \A i \in 1..Len(view.branches), j \in 1..Len(view'.branches) :
           (view.branches[i].name = view'.branches[j].name
              /\ view.branches[i].pr_status # "LOADING") =>
             view'.branches[j].pr_status # "LOADING" ]_vars

\* a step that runs Store::delete_branches for delete_selected_branches
StoreDeleteStep == ui_pc = "idle" /\ ui_pc' = "deleting"

\* C25: a name the repository does not have does not make Store.delete fail
\* (a delete of absent names only succeeds); when the delete succeeds every
\* requested name the repository had is gone from it, and the cache loses the
\* records of the requested names and keeps every other record as it was.
C25_AbsentNameIsSkipped ==
  [][ StoreDeleteStep =>
        LET names == Range(view.selected_branches)
        IN  /\ names \cap git_branches = {} => del'.ok
            /\ del'.ok =>
                 /\ git_branches' = git_branches \ names
                 /\ del'.removed = names \cap git_branches
                 /\ list_branches(cache') =
                      SelectSeq(list_branches(cache), LAMBDA b : b.name \notin names) ]_vars

\* a delete succeeded for two names of which the repository had only one
C25_Witness ==
  /\ ui_pc = "deleting"
  /\ del.ok
  /\ del.removed # {}
  /\ \E n \in Range(del.names) : n \notin del.removed

C27_NewFailsOnRepositoryOrRemote ==
  call.op = "new" =>
    LET env == call.env
        result == call.result
    IN  /\ ~result.ok <=>
             \/ ~env.repo_found
             \/ ~env.origin.found
             \/ ~env.origin.utf8 \/ ~env.origin.parse_ok \/ ~env.origin.provider_ok
        /\ ~result.ok =>
             /\ ui_pc = "failed"
             /\ cache = None
             /\ task_pc = "none"
             /\ view.branches = <<>>
             /\ ~ENABLED NextStart

\* new() succeeded without a token, and failed for a repository without origin
C27_Witness ==
  /\ call.op = "new"
  /\ \/ call.result.ok /\ ~call.env.token.set
     \/ ~call.result.ok /\ call.env.repo_found /\ ~call.env.origin.found
          /\ call.result.error = "NoOriginRemote"

\* C28: with no usable token new() and load() succeed and the task finishes
\* with every branch at status NONE.
C28_OfflineGivesNone ==
  (call.op = "new" /\ call.result.ok /\ ~call.result.authenticated
     /\ task_pc = "done") =>
    \A b \in Range(enriched) : b.pr_status = "NONE"

\* C29: the in-memory delete_branches(names) removes exactly the records whose
\* name is in names; the other records stay, unchanged and in the same
\* relative order; list_branches is shorter by the number of matching records
\* and holds none of the names.
C29_MemDeleteRemovesExactlyNamed ==
  [][ MemDeleteStep =>
        LET names == Range(view.selected_branches)
            matching == {i \in 1..Len(mem) : mem[i].name \in names}
        IN  /\ \A b \in Range(mem) : b \in Range(mem') <=> b.name \notin names
            /\ Range(mem') \subseteq Range(mem)
            /\ \A i, j \in 1..Len(mem') :
                 i < j => Position(mem, mem'[i]) < Position(mem, mem'[j])
            /\ Len(mem_list_branches(mem')) = Len(mem) - Cardinality(matching)
            /\ NameSet(mem_list_branches(mem')) \cap names = {} ]_vars

\* the store holds the second branch only: the first was deleted
C29_Witness ==
  /\ Len(mem) = 1
  /\ mem[1].name = NamePool[2]

FoundPr(i) ==
  LET result1 == call.results[i][1]
      result2 == call.results[i][2]
  IN  IF result1.items # <<>> THEN result1.items[1] ELSE result2.items[1]

\* C31: every record enrich_branches produces has a status among NONE, OPEN,
\* MERGED, CLOSED, and for a pull request that was found the status is MERGED
\* if it is merged, OPEN if it is open, CLOSED if it is closed without merge.
C31_StatusFollowsPullRequest ==
  call.op = "enrich_branches" =>
    \A i \in 1..Len(enriched) :
      /\ enriched[i].pr_status \in {"NONE", "OPEN", "MERGED", "CLOSED"}
      /\ ~NothingFound(i) =>
           enriched[i].pr_status =
             IF FoundPr(i).merged_at # None
               THEN "MERGED"
               ELSE IF FoundPr(i).state = Some("open") THEN "OPEN" ELSE "CLOSED"

\* the list of the load with the records applied so far resolved
ResolvedSoFar ==
  [i \in 1..Len(enriched) |->
     IF i \in Range(call.applied) THEN enriched[i]
                                  ELSE LoadingRecord(branch_names[i])]

\* C32: from the ViewState of the all-LOADING list, whatever the order in
\* which the updates of the branches were applied (no toggle in between), the
\* branches and the set of marked names are those of ViewState::new over the
\* list as resolved so far, hence over the fully resolved list at the end; and
\* two updates for different names give the same branches and marked set in
\* either order.
C32_DefaultSelectionIsOrderIndependent ==
  /\ view.branches = ViewState_new(ResolvedSoFar).branches
  /\ Range(view.selected_branches)
       = Range(ViewState_new(ResolvedSoFar).selected_branches)
  /\ \A i, j \in (1..Len(enriched)) \ Range(call.applied) :
       i # j =>
         LET ij == update_branch(update_branch(view, enriched[i]), enriched[j])
             ji == update_branch(update_branch(view, enriched[j]), enriched[i])
         IN  /\ ij.branches = ji.branches
             /\ Range(ij.selected_branches) = Range(ji.selected_branches)

\* both updates applied, the second branch first, and both branches merged
C32_Witness ==
  /\ call.op = "update_branch"
  /\ call.applied = <<2, 1>>
  /\ Len(enriched) = 2
  /\ view.branches = enriched
  /\ view.selected_branches = <<NamePool[2], NamePool[1]>>

\* C33: once the task has finished and the event loop has drained the
\* channel, the branches on display are the list the store returns.
C33_DisplayEqualsCache ==
  (task_pc = "done" /\ rx = <<>> /\ ui_pc = "idle")
    => view.branches = list_branches(cache)

\* C34: a branch whose delete succeeded is never on display again, neither by
\* an update from the channel nor by the reload of a later delete.
C34_DeletedNeverReappears ==
  ui_pc = "idle" => NameSet(view.branches) \cap confirmed = {}

\* the names the program must never hand to the repository's delete
NeverDeleted == PROTECTED_BRANCHES \cup Range(head)

\* C35: a protected branch and the branch checked out at load time are in
\* none of the cache, the branches on display, the marked names and the names
\* passed to the repository's delete; every name passed to that delete is a
\* name of the listing made by load(); the repository keeps its protected
\* branch and its checked-out branch.
C35_ProtectedAndHeadNeverDeleted ==
  /\ NameSet(list_branches(cache)) \cap NeverDeleted = {}
  /\ NameSet(view.branches) \cap NeverDeleted = {}
  /\ Range(view.selected_branches) \cap NeverDeleted = {}
  /\ Range(del.names) \cap NeverDeleted = {}
  /\ Range(del.names) \subseteq Range(branch_names)
  /\ {"main"} \cup Range(head) \subseteq git_branches

\* a delete of a marked branch went through in a repository that has a
\* protected branch and a checked-out feature branch, both still there
C35_Witness ==
  /\ ui_pc = "deleting"
  /\ del.ok
  /\ del.names # <<>>
  /\ head = Some(NamePool[1])
  /\ {"main", NamePool[1]} \subseteq git_branches

\* C36: when the store's delete failed, delete_selected_branches leaves the
\* marked names and selected_index as they were before the call.
C36_FailedDeleteKeepsMarksAndCursor ==
  [][ (ReloadStep /\ ~del.ok) =>
        /\ Range(view'.selected_branches) = Range(view.selected_branches)
        /\ view'.selected_index = view.selected_index ]_vars

\* C37: a load() that fails on the listing leaves the cache as it was (never
\* written), spawns no task and creates no channel; list_branches() on a store
\* that was never loaded returns the empty list.
C37_FailedLoadLeavesStoreUntouched ==
  ui_pc \in {"start", "failed"} =>
    /\ cache = None
    /\ task_pc = "none"
    /\ rx = <<>> /\ enriched = <<>>
    /\ list_branches(cache) = <<>>

\* load() failed in a repository that has branches to list
C37_Witness ==
  /\ ui_pc = "failed"
  /\ git_branches \cap FeatureNames # {}

\* C38: the names on display being unique, selected_branches never holds a
\* name twice, whatever sequence of construction, toggle_selection,
\* update_branch and delete_selected_branches produced the ViewState.
C38_MarkedHasNoDuplicates ==
  NoDuplicates(Names(view.branches)) => NoDuplicates(view.selected_branches)

\* the update that turned the first branch MERGED has been applied to a
\* ViewState whose marks the user had changed: the branch is marked, and a
\* branch that is still LOADING is marked too
C38_Witness ==
  /\ ui_pc = "idle"
  /\ Len(view.branches) = 2
  /\ view.branches[1].pr_status = "MERGED"
  /\ view.branches[2].pr_status = "LOADING"
  /\ Range(view.selected_branches) = NameSet(view.branches)
  /\ \E i \in 1..Len(list_branches(cache)) :
       /\ list_branches(cache)[i].name = view.branches[1].name
       /\ list_branches(cache)[i].pr_status = "LOADING"

\* C39: load() having been called a second time, once the tasks of both
\* loads have finished the cache holds exactly the names the second load()
\* listed: the final cache write of the first load's task has not replaced
\* what the second load put there.
C39_LatestLoadWins ==
  (old_task.pc = "done" /\ task_pc = "done") =>
    NameSet(list_branches(cache)) = Range(branch_names)

====
